---- MODULE Spec2Model ----
(***************************************************************************)
(* A model of wrapt/wrappers.py: the transparent call-interception proxies *)
(* WrapperBase, FunctionWrapper, GenericWrapper / BoundGenericWrapper and  *)
(* MethodWrapper / BoundMethodWrapper.                                     *)
(*                                                                         *)
(* Every Python object reference is a tuple whose first element is a tag:  *)
(*   <<"obj", o>>            a plain object (function, descriptor, ...)    *)
(*   <<"px", n>>             the n-th proxy of the decoration stack        *)
(*   <<"bx", k>>             the k-th proxy made by the latest binding     *)
(*   <<"method", fn, self>>  the function fn bound to the object self       *)
(*   <<"partial", c, a>>     functools.partial(c, a)                       *)
(*   <<"val", v>>, <<"init", name, o>>   attribute values                  *)
(*   <<"dict", m>>           a keyword mapping (the params of a proxy)     *)
(*   <<"None">>              Python's None                                 *)
(*   <<"absent">>            the attribute lookup raises AttributeError    *)
(***************************************************************************)
EXTENDS Integers, Sequences, FiniteSets, TLC

VARIABLES interp, attrs, proxies, bound, last, built, writes

vars == <<interp, attrs, proxies, bound, last, built, writes>>

----------------------------------------------------------------------------
(* Bounds of the model *)

MaxProxies == 2

MaxWrites == 2

MaxArgs == 2

----------------------------------------------------------------------------
(* The world the proxies are used in: a class C with an instance method f, *)
(* a classmethod object cm and a staticmethod object sm, and an instance.  *)

None == <<"None">>

Absent == <<"absent">>

Obj(o) == <<"obj", o>>

Entities == {"f", "cm", "sm"}

AttrObjs == {"f", "cm", "sm", "cm_func", "sm_func"}

Owner == Obj("C")

Receivers == {None, Obj("i1")}

ArgVals == {Obj("i1"), <<"val", "x">>}

KwargSets == {{}, {<<"k", <<"val", "kv">>>>}}

ParamSets == {<<"dict", {<<"opt", <<"val", "p1">>>>}>>}

Wrappers == {<<"cb", "w1">>}

Adapters == {None, Obj("adapter")}

Results == {<<"val", "r1">>, <<"val", "r2">>}

NewVals == {<<"val", "v2">>}

PublicNames == {"__name__", "__qualname__", "__doc__", "__module__",
                "__annotations__", "__anotations__", "__wrapped__"}

ReservedNames == {"_self_wrapped", "_self_wrapper", "_self_params",
                  "_self_target", "_self_instance", "_self_parent"}

AllNames == PublicNames \cup ReservedNames

ProxyClasses == {"FunctionWrapper", "GenericWrapper", "MethodWrapper"}

RECURSIVE SeqsUpTo(_, _)
SeqsUpTo(S, n) ==
    IF n = 0 THEN {<<>>}
    ELSE LET shorter == SeqsUpTo(S, n - 1)
         IN  shorter \cup {Append(s, x) : s \in shorter, x \in S}

ArgLists == SeqsUpTo(ArgVals, MaxArgs)

(* The call-site inputs used where calls interleave with attribute writes: *)
(* the instance alone, no keyword, one callback result.                    *)
FewArgLists == {<<Obj("i1")>>}

FewKwargSets == {{}}

FewResults == {<<"val", "r1">>}

(* The declared kind of a plain object: type(o). *)
KindOf(o) ==
    CASE o = "cm" -> "classmethod"
      [] o = "sm" -> "staticmethod"
      [] o \in {"f", "cm_func", "sm_func"} -> "function"
      [] OTHER -> "object"

(* The function a classmethod / staticmethod object was made from. *)
FuncOf(o) == IF o = "cm" THEN "cm_func" ELSE "sm_func"

(* The interpreter families the module runs on, told apart by what the    *)
(* built-in function, classmethod and staticmethod objects carry:          *)
(*   "py2"    Python 2: a function has no __qualname__ and no              *)
(*            __annotations__, a function fetched through its class is an  *)
(*            unbound method, classmethod / staticmethod objects accept no *)
(*            attribute write;                                            *)
(*   "py3"    Python 3 before 3.10;                                        *)
(*   "py310"  Python 3.10 and later: classmethod / staticmethod objects    *)
(*            copy the metadata of their function and point at it with a   *)
(*            read-only __wrapped__.                                       *)
Interpreters == {"py2", "py3", "py310"}

(* Attribute tables before any wrapping, on the interpreter family v.  A   *)
(* function carries its metadata.  A classmethod / staticmethod object     *)
(* either copies the metadata of its function ("py310") or carries only    *)
(* the documentation text of its type: no module, name, qualified name,    *)
(* annotations or __wrapped__.                                             *)
InitAttrs(v) ==
    [o \in AttrObjs |->
        [n \in PublicNames |->
            IF KindOf(o) = "function"
            THEN IF \/ n \in {"__anotations__", "__wrapped__"}
                    \/ v = "py2" /\ n \in {"__qualname__", "__annotations__"}
                 THEN Absent
                 ELSE <<"init", n, o>>
            ELSE IF v = "py310"
                 THEN CASE n = "__anotations__" -> Absent
                        [] n = "__wrapped__" -> Obj(FuncOf(o))
                        [] OTHER -> <<"init", n, FuncOf(o)>>
                 ELSE IF n = "__doc__"
                      THEN <<"init", n, KindOf(o)>>
                      ELSE Absent]]

(* Whether setattr(o, name, value) on the plain object o is accepted.  A   *)
(* function takes any attribute, except that from Python 3 on its          *)
(* __annotations__ must be a dict (TypeError otherwise).  A classmethod /  *)
(* staticmethod object has no attribute dictionary on "py2" and refuses    *)
(* every write; on "py310" its __wrapped__ member is read-only.            *)
Writable(o, name, value) ==
    /\ o \in AttrObjs
    /\ name \in PublicNames
    /\ (KindOf(o) = "function" /\ interp # "py2"
           /\ name = "__annotations__")
          => value[1] = "dict"
    /\ KindOf(o) \in {"classmethod", "staticmethod"}
          => /\ interp # "py2"
             /\ ~(interp = "py310" /\ name = "__wrapped__")

(* The name of the type of a value that is neither a proxy, a function, a  *)
(* method nor a descriptor object.                                         *)
TypeName(x) ==
    CASE x[1] = "val" -> "str"
      [] x[1] = "partial" -> "partial"
      [] x[1] = "None" -> "NoneType"
      [] OTHER -> "object"

----------------------------------------------------------------------------
(* Attribute reads *)

IsProxyRef(x) == x[1] \in {"px", "bx"}

(* The proxy object a reference denotes; bs is the list of bound proxies   *)
(* the reference is read against.                                          *)
ProxyAt(bs, x) == IF x[1] = "px" THEN proxies[x[2]] ELSE bs[x[2]]

RECURSIVE ReadAttr(_, _, _)
(* getattr(x, name): WrapperBase's properties, the instance dictionary and *)
(* __getattr__ for a proxy; the attribute table for a plain object.  A     *)
(* bound method object reads the attributes of its function.               *)
ReadAttr(bs, x, name) ==
    CASE x[1] = "obj" ->
            IF x[2] \in AttrObjs /\ name \in PublicNames
            THEN attrs[x[2]][name] ELSE Absent
      [] x[1] = "method" -> ReadAttr(bs, Obj(x[2]), name)
      [] IsProxyRef(x) ->
            LET p == ProxyAt(bs, x) IN
            CASE name \in {"__wrapped__", "_self_target"} -> p.target
              [] name = "_self_wrapped" -> p.wrapped
              [] name = "_self_wrapper" -> p.wrapper
              [] name = "_self_params" -> p.params
              [] name = "_self_instance" ->
                    IF p.instance # Absent THEN p.instance
                    ELSE ReadAttr(bs, p.wrapped, name)
              [] name = "_self_parent" ->
                    IF p.parent # Absent THEN p.parent
                    ELSE ReadAttr(bs, p.wrapped, name)
              [] name \in {"__module__", "__doc__"} ->
                    ReadAttr(bs, p.wrapped, name)
              [] name = "__annotations__" ->
                    LET got == ReadAttr(bs, p.wrapped, "__anotations__")
                    IN  IF got # Absent THEN got
                        ELSE ReadAttr(bs, p.wrapped, "__annotations__")
              [] name = "__name__" ->
                    IF p.name # Absent THEN p.name
                    ELSE ReadAttr(bs, p.wrapped, name)
              [] name = "__qualname__" ->
                    IF p.qualname # Absent THEN p.qualname
                    ELSE ReadAttr(bs, p.wrapped, name)
              [] OTHER -> ReadAttr(bs, p.wrapped, name)
      [] OTHER -> IF name = "__doc__"
                  THEN <<"init", "__doc__", TypeName(x)>>
                  ELSE Absent

RECURSIVE ClassOf(_, _)
(* x.__class__, which isinstance() consults: a proxy reports the class of  *)
(* what it wraps.                                                          *)
ClassOf(bs, x) ==
    CASE x[1] = "obj" -> KindOf(x[2])
      [] x[1] = "method" -> "method"
      [] x[1] = "partial" -> "partial"
      [] IsProxyRef(x) -> ClassOf(bs, ProxyAt(bs, x).wrapped)
      [] OTHER -> "object"

----------------------------------------------------------------------------
(* Equality and hashing *)

RECURSIVE ObjEq(_, _, _)
(* a == b.  A proxy answers with WrapperBase.__eq__; a plain object        *)
(* compares by identity and, when the other side is a proxy, leaves the    *)
(* answer to the proxy's reflected __eq__.                                 *)
ObjEq(bs, a, b) ==
    IF IsProxyRef(a) THEN ObjEq(bs, ProxyAt(bs, a).target, b)
    ELSE IF IsProxyRef(b) THEN ObjEq(bs, ProxyAt(bs, b).target, a)
    ELSE a = b

RECURSIVE HashOf(_, _)
(* hash(a): the identity of a plain object, WrapperBase.__hash__ for a     *)
(* proxy.                                                                  *)
HashOf(bs, a) ==
    IF IsProxyRef(a) THEN HashOf(bs, ProxyAt(bs, a).target) ELSE a

(* WrapperBase.__eq__ *)
ProxyEq(bs, x, other) == ObjEq(bs, ProxyAt(bs, x).target, other)

(* WrapperBase.__ne__ *)
ProxyNe(bs, x, other) == ~ProxyEq(bs, x, other)

(* WrapperBase.__hash__ computed from what the proxy wraps.                *)
ProxyHash_OfWrapped(bs, x) == HashOf(bs, ProxyAt(bs, x).wrapped)

(* WrapperBase.__hash__ *)
ProxyHash(bs, x) == HashOf(bs, ProxyAt(bs, x).target)

----------------------------------------------------------------------------
(* Construction *)

(* WrapperBase.__init__ taking the immediate target as the anchor, without *)
(* following its __wrapped__.                                              *)
WrapperBaseInit_NoCollapse(bs, cls, wrapped, wrapper, adapter, params) ==
    [cls      |-> cls,
     wrapped  |-> wrapped,
     wrapper  |-> wrapper,
     params   |-> params,
     target   |-> IF adapter = None THEN wrapped ELSE adapter,
     qualname |-> ReadAttr(bs, wrapped, "__qualname__"),
     name     |-> ReadAttr(bs, wrapped, "__name__"),
     instance |-> Absent,
     parent   |-> Absent]

(* WrapperBase.__init__ copying __qualname__ into both snapshots.          *)
WrapperBaseInit_NameSwap(bs, cls, wrapped, wrapper, adapter, params) ==
    [cls      |-> cls,
     wrapped  |-> wrapped,
     wrapper  |-> wrapper,
     params   |-> params,
     target   |-> IF adapter = None
                  THEN LET w == ReadAttr(bs, wrapped, "__wrapped__")
                       IN  IF w = Absent THEN wrapped ELSE w
                  ELSE adapter,
     qualname |-> ReadAttr(bs, wrapped, "__qualname__"),
     name     |-> ReadAttr(bs, wrapped, "__qualname__"),
     instance |-> Absent,
     parent   |-> Absent]

(* WrapperBase.__init__ taking no snapshot of __qualname__ and __name__.   *)
WrapperBaseInit_NoSnapshot(bs, cls, wrapped, wrapper, adapter, params) ==
    [cls      |-> cls,
     wrapped  |-> wrapped,
     wrapper  |-> wrapper,
     params   |-> params,
     target   |-> IF adapter = None
                  THEN LET w == ReadAttr(bs, wrapped, "__wrapped__")
                       IN  IF w = Absent THEN wrapped ELSE w
                  ELSE adapter,
     qualname |-> Absent,
     name     |-> Absent,
     instance |-> Absent,
     parent   |-> Absent]

(* WrapperBase.__init__: the three stored references, the identity anchor  *)
(* and the snapshots of __qualname__ and __name__.                         *)
WrapperBaseInit(bs, cls, wrapped, wrapper, adapter, params) ==
    [cls      |-> cls,
     wrapped  |-> wrapped,
     wrapper  |-> wrapper,
     params   |-> params,
     target   |-> IF adapter = None
                  THEN LET w == ReadAttr(bs, wrapped, "__wrapped__")
                       IN  IF w = Absent THEN wrapped ELSE w
                  ELSE adapter,
     qualname |-> ReadAttr(bs, wrapped, "__qualname__"),
     name     |-> ReadAttr(bs, wrapped, "__name__"),
     instance |-> Absent,
     parent   |-> Absent]

(* BoundGenericWrapper.__init__ and BoundMethodWrapper.__init__.           *)
BoundInit(bs, cls, parent, wrapped, instance, wrapper, adapter, params) ==
    [WrapperBaseInit(bs, cls, wrapped, wrapper, adapter, params)
        EXCEPT !.instance = instance,
               !.parent = IF cls = "BoundGenericWrapper" THEN parent
                          ELSE Absent]

(* The object on top of the decoration stack: the one the class attribute  *)
(* names.                                                                  *)
Top == <<"px", Len(proxies)>>

RECURSIVE Root(_)
(* The plain object at the bottom of the stack under x. *)
Root(x) == IF x[1] = "px" THEN Root(proxies[x[2]].wrapped) ELSE x

----------------------------------------------------------------------------
(* Binding: attribute access through an instance or through the class *)

(* o.__get__(instance, owner) of a plain object: a function gives itself   *)
(* (on "py2" an unbound method, written as the method bound to None)       *)
(* when the instance is None and a bound method otherwise, a classmethod   *)
(* object gives its function bound to the owner, a staticmethod object     *)
(* gives its function.                                                     *)
PlainGet(x, instance) ==
    CASE x[1] # "obj" -> x
      [] KindOf(x[2]) = "function" ->
            IF instance = None /\ interp # "py2" THEN x
            ELSE <<"method", x[2], instance>>
      [] KindOf(x[2]) = "classmethod" -> <<"method", FuncOf(x[2]), Owner>>
      [] KindOf(x[2]) = "staticmethod" -> Obj(FuncOf(x[2]))
      [] OTHER -> x

BoundClassOf(cls) ==
    IF cls = "GenericWrapper" THEN "BoundGenericWrapper"
    ELSE "BoundMethodWrapper"

RECURSIVE BindChain(_, _)
(* x.__get__(instance, owner).  GenericWrapper.__get__ and                 *)
(* MethodWrapper.__get__ first bind what they wrap and then build one new  *)
(* bound proxy around the result; a FunctionWrapper defines no __get__, so *)
(* the lookup goes through __getattr__ to what it wraps.  The result is    *)
(* the descriptor and the list of bound proxies made, innermost first.     *)
BindChain(x, instance) ==
    IF x[1] = "px"
    THEN LET p == proxies[x[2]]
             inner == BindChain(p.wrapped, instance)
         IN  IF p.cls = "FunctionWrapper" THEN inner
             ELSE [desc |-> <<"bx", Len(inner.made) + 1>>,
                   made |-> Append(inner.made,
                               BoundInit(inner.made, BoundClassOf(p.cls), x,
                                         inner.desc, instance, p.wrapper,
                                         p.target, p.params))]
    ELSE [desc |-> PlainGet(x, instance), made |-> <<>>]

----------------------------------------------------------------------------
(* Calls *)

(* callable(c): functions, methods and partial objects are callable, a     *)
(* proxy is when its class defines __call__, a staticmethod object is from *)
(* 3.10 on, a classmethod object and an ordinary value are not.            *)
IsCallable(bs, c) ==
    CASE c[1] \in {"method", "partial"} -> TRUE
      [] c[1] = "obj" -> \/ KindOf(c[2]) = "function"
                         \/ KindOf(c[2]) = "staticmethod" /\ interp = "py310"
      [] IsProxyRef(c) -> ProxyAt(bs, c).cls # "MethodWrapper"
      [] OTHER -> FALSE

(* functools.partial(c, a): a partial object, or TypeError when c is not   *)
(* callable.                                                               *)
Partial(bs, c, a) ==
    IF IsCallable(bs, c) THEN <<"partial", c, a>>
    ELSE <<"raise", "TypeError">>

(* The call raises before the callback is reached. *)
Raise(exc) == [ok |-> FALSE, exc |-> exc, ret |-> None, invoked |-> <<>>]

(* return self._self_wrapper(<pos>, **self._self_params): one invocation   *)
(* of the interception callback, whose result res is returned.  A stored   *)
(* wrapper that is not callable, or stored params that are not a mapping,  *)
(* make the call raise TypeError.                                          *)
Invoke(p, pos, res) ==
    IF p.wrapper[1] = "cb" /\ p.params[1] = "dict"
    THEN [ok |-> TRUE, exc |-> "none", ret |-> res,
          invoked |-> <<[wrapper |-> p.wrapper, pos |-> pos,
                         params |-> p.params, result |-> res]>>]
    ELSE Raise("TypeError")

(* instance, args = args[0], args[1:]; wrapped = functools.partial(wrapped,*)
(* instance); then the callback is invoked with the shifted arguments.     *)
ShiftCall(bs, p, args, kwargs, res) ==
    IF args = <<>> THEN Raise("IndexError")
    ELSE LET part == Partial(bs, p.wrapped, Head(args)) IN
         IF part[1] = "raise" THEN Raise(part[2])
         ELSE Invoke(p, <<part, Head(args), Tail(args), kwargs>>, res)

(* FunctionWrapper.__call__ passing a receiver slot like GenericWrapper.   *)
FunctionCall_WithReceiver(p, args, kwargs, res) ==
    Invoke(p, <<p.wrapped, None, args, kwargs>>, res)

(* FunctionWrapper.__call__ *)
FunctionCall(p, args, kwargs, res) ==
    Invoke(p, <<p.wrapped, args, kwargs>>, res)

(* GenericWrapper.__call__ *)
GenericCall(p, args, kwargs, res) ==
    Invoke(p, <<p.wrapped, None, args, kwargs>>, res)

(* BoundGenericWrapper.__call__ shifting whatever the stored instance is.  *)
BoundGenericCall_ShiftAlways(bs, p, args, kwargs, res) ==
    IF ClassOf(bs, ProxyAt(bs, p.parent).wrapped)
           \notin {"classmethod", "staticmethod"}
    THEN ShiftCall(bs, p, args, kwargs, res)
    ELSE Invoke(p, <<p.wrapped, p.instance, args, kwargs>>, res)

(* BoundGenericWrapper.__call__ never shifting.                            *)
BoundGenericCall_NoShift(bs, p, args, kwargs, res) ==
    Invoke(p, <<p.wrapped, p.instance, args, kwargs>>, res)

(* BoundGenericWrapper.__call__ classifying the bound callable instead of  *)
(* what the parent wrapped.                                                *)
BoundGenericCall_BoundKind(bs, p, args, kwargs, res) ==
    IF /\ p.instance = None
       /\ ClassOf(bs, p.wrapped) \notin {"classmethod", "staticmethod"}
    THEN ShiftCall(bs, p, args, kwargs, res)
    ELSE Invoke(p, <<p.wrapped, p.instance, args, kwargs>>, res)

(* BoundGenericWrapper.__call__ *)
BoundGenericCall(bs, p, args, kwargs, res) ==
    IF p.instance = None /\ ~IsProxyRef(p.parent)
    THEN Raise("AttributeError")
    ELSE IF /\ p.instance = None
            /\ ClassOf(bs, ProxyAt(bs, p.parent).wrapped)
                   \notin {"classmethod", "staticmethod"}
    THEN ShiftCall(bs, p, args, kwargs, res)
    ELSE Invoke(p, <<p.wrapped, p.instance, args, kwargs>>, res)

(* BoundMethodWrapper.__call__ never shifting.                             *)
BoundMethodCall_NoShift(bs, p, args, kwargs, res) ==
    Invoke(p, <<p.wrapped, p.instance, args, kwargs>>, res)

(* BoundMethodWrapper.__call__ *)
BoundMethodCall(bs, p, args, kwargs, res) ==
    IF p.instance = None
    THEN ShiftCall(bs, p, args, kwargs, res)
    ELSE Invoke(p, <<p.wrapped, p.instance, args, kwargs>>, res)

(* Calling a proxy c: the __call__ method of its class.  A                  *)
(* MethodWrapper defines none.                                             *)
CallProxy(bs, c, args, kwargs, res) ==
    LET p == ProxyAt(bs, c) IN
    CASE p.cls = "FunctionWrapper" -> FunctionCall(p, args, kwargs, res)
      [] p.cls = "GenericWrapper" -> GenericCall(p, args, kwargs, res)
      [] p.cls = "BoundGenericWrapper" ->
            BoundGenericCall(bs, p, args, kwargs, res)
      [] p.cls = "BoundMethodWrapper" ->
            BoundMethodCall(bs, p, args, kwargs, res)
      [] OTHER -> Raise("TypeError")

NoCall == [callee |-> None, args |-> <<>>, kwargs |-> {}, ok |-> FALSE,
           exc |-> "none", invoked |-> <<>>, ret |-> None]

----------------------------------------------------------------------------
(* Attribute writes *)

(* name.startswith('_self_') *)
StartsWithSelf(name) == Len(name) >= 6 /\ SubSeq(name, 1, 6) = "_self_"

RECURSIVE WriteSite(_, _, _, _)
(* Where setattr(x, name, value) stores: WrapperBase.__setattr__ keeps a   *)
(* '_self_' name on the proxy and forwards any other name to what the      *)
(* proxy wraps; a plain object stores it itself unless it rejects the      *)
(* write; a bound method object refuses.  Absent: the write raises and     *)
(* stores nowhere.                                                         *)
WriteSite(bs, x, name, value) ==
    CASE IsProxyRef(x) ->
            IF StartsWithSelf(name) THEN x
            ELSE WriteSite(bs, ProxyAt(bs, x).wrapped, name, value)
      [] x[1] = "obj" /\ Writable(x[2], name, value) -> x
      [] OTHER -> Absent

(* object.__setattr__(self, name, value) for a '_self_' name: the proxy's  *)
(* own field of that name is replaced.  A '_self_' name no code reads is   *)
(* kept on the proxy without effect on any field.                          *)
LocalStore(p, name, value) ==
    CASE name = "_self_wrapped" -> [p EXCEPT !.wrapped = value]
      [] name = "_self_wrapper" -> [p EXCEPT !.wrapper = value]
      [] name = "_self_params" -> [p EXCEPT !.params = value]
      [] name = "_self_target" -> [p EXCEPT !.target = value]
      [] name = "_self_instance" -> [p EXCEPT !.instance = value]
      [] name = "_self_parent" -> [p EXCEPT !.parent = value]
      [] OTHER -> p

----------------------------------------------------------------------------
(* Actions *)

Init ==
    /\ interp \in Interpreters
    /\ attrs = InitAttrs(interp)
    /\ proxies = <<>>
    /\ bound = <<>>
    /\ last = NoCall
    /\ built = <<>>
    /\ writes = 0

(* Construct a proxy of class cls around an entity of the class, or around *)
(* the proxy on top of the stack.                                          *)
Wrap ==
    /\ Len(proxies) < MaxProxies
    /\ \E cls \in ProxyClasses, wrapper \in Wrappers, adapter \in Adapters,
          params \in ParamSets,
          wrapped \in IF proxies = <<>> THEN {Obj(e) : e \in Entities}
                      ELSE {Top} :
          LET p == WrapperBaseInit(<<>>, cls, wrapped, wrapper, adapter,
                                   params)
          IN  /\ proxies' = Append(proxies, p)
              /\ built' = Append(built,
                     [anchor0   |-> p.target,
                      name0     |-> ReadAttr(<<>>, wrapped, "__name__"),
                      qualname0 |-> ReadAttr(<<>>, wrapped, "__qualname__"),
                      adapter   |-> adapter,
                      writesAt  |-> writes,
                      retargeted |-> FALSE])
    /\ bound' = <<>>
    /\ last' = NoCall
    /\ UNCHANGED <<interp, attrs, writes>>

(* Fetch the top proxy through an instance or through the class.           *)
Get ==
    /\ proxies # <<>>
    /\ Root(Top)[1] = "obj"
    /\ proxies[Len(proxies)].cls \in {"GenericWrapper", "MethodWrapper"}
    /\ \E instance \in Receivers :
          bound' = BindChain(Top, instance).made
    /\ last' = NoCall
    /\ UNCHANGED <<interp, attrs, proxies, built, writes>>

(* The objects a caller holds: the top of the stack and the result of the  *)
(* latest binding.                                                         *)
Callables ==
    (IF proxies = <<>> THEN {} ELSE {Top}) \cup
    (IF bound = <<>> THEN {} ELSE {<<"bx", Len(bound)>>})

(* Call a proxy with inputs of the given sets; the interception callback   *)
(* returns res.  last records the call in progress: the call-site inputs,  *)
(* the callback invocations made and what the call returns.                *)
Call(argLists, kwargSets, results) ==
    /\ last = NoCall
    /\ \E c \in Callables, args \in argLists, kwargs \in kwargSets,
          res \in results :
          LET out == CallProxy(bound, c, args, kwargs, res)
          IN  last' = [callee |-> c, args |-> args, kwargs |-> kwargs,
                       ok |-> out.ok, exc |-> out.exc,
                       invoked |-> out.invoked, ret |-> out.ret]
    /\ UNCHANGED <<interp, attrs, proxies, bound, built, writes>>

(* The caller takes the result of the call.                                *)
Return ==
    /\ last # NoCall
    /\ last' = NoCall
    /\ UNCHANGED <<interp, attrs, proxies, bound, built, writes>>

ProxyRefs ==
    {<<"px", n>> : n \in 1..Len(proxies)} \cup
    {<<"bx", k>> : k \in 1..Len(bound)}

(* setattr(x, name, value) on a proxy x, for a name of the set names.      *)
SetAttr(names) ==
    /\ writes < MaxWrites
    /\ \E x \in ProxyRefs, name \in names, value \in NewVals :
          LET site == WriteSite(bound, x, name, value)
          IN  /\ site # Absent
              /\ attrs' = IF site[1] = "obj"
                          THEN [attrs EXCEPT ![site[2]][name] = value]
                          ELSE attrs
              /\ proxies' = IF site[1] = "px"
                            THEN [proxies EXCEPT ![site[2]] =
                                     LocalStore(@, name, value)]
                            ELSE proxies
              /\ bound' = IF site[1] = "bx"
                          THEN [bound EXCEPT ![site[2]] =
                                   LocalStore(@, name, value)]
                          ELSE bound
              /\ built' = IF x[1] = "px" /\ name = "_self_target"
                          THEN [built EXCEPT ![x[2]].retargeted = TRUE]
                          ELSE built
    /\ writes' = writes + 1
    /\ UNCHANGED <<interp, last>>

(* setattr(target, name, value) made directly on the wrapped entity.       *)
DirectSet ==
    /\ writes < MaxWrites
    /\ proxies # <<>>
    /\ Root(Top)[1] = "obj"
    /\ \E name \in PublicNames, value \in NewVals :
          /\ Writable(Root(Top)[2], name, value)
          /\ attrs' = [attrs EXCEPT ![Root(Top)[2]][name] = value]
    /\ writes' = writes + 1
    /\ UNCHANGED <<interp, proxies, bound, last, built>>

Next ==
    \/ Wrap
    \/ Get
    \/ Call(FewArgLists, FewKwargSets, FewResults)
    \/ Return
    \/ SetAttr(AllNames)
    \/ DirectSet

Spec == Init /\ [][Next]_vars

NextCall == Wrap \/ Get \/ Call(ArgLists, KwargSets, Results) \/ Return

SpecCall == Init /\ [][NextCall]_vars

NextAttr == Wrap \/ Get \/ SetAttr(PublicNames) \/ DirectSet

SpecAttr == Init /\ [][NextAttr]_vars

----------------------------------------------------------------------------
(* Properties of calls (checked under SpecCall)                            *)

(* The call in progress was made on a bound proxy of class cls. *)
BoundCallOf(cls) ==
    /\ last # NoCall
    /\ last.callee[1] = "bx"
    /\ bound[last.callee[2]].cls = cls

Callee == ProxyAt(bound, last.callee)

(* The callback was invoked exactly once, with the positional values pos   *)
(* and the callee's configuration, and its result is what the call         *)
(* returns.                                                                *)
InvokedOnceWith(pos) ==
    /\ last.ok
    /\ Len(last.invoked) = 1
    /\ last.invoked[1].wrapper = Callee.wrapper
    /\ Len(last.invoked[1].pos) = Len(pos)
    /\ last.invoked[1].pos = pos
    /\ last.invoked[1].params = Callee.params
    /\ last.ret = last.invoked[1].result

(* The unbound proxy a bound generic proxy was fetched from wraps e        *)
(* itself.                                                                 *)
ParentWraps(e) == ProxyAt(bound, Callee.parent).wrapped = Obj(e)

(* C1: a generic proxy over the instance method f, fetched through an      *)
(* instance r and called with (A, K), invokes the callback exactly once    *)
(* with (f bound to r, r, A, K); A is passed unchanged and the callback's  *)
(* result is returned.                                                     *)
C1_InstanceFetch ==
    ( /\ BoundCallOf("BoundGenericWrapper")
      /\ Root(Callee.parent) = Obj("f")
      /\ Callee.instance # None )
    => /\ InvokedOnceWith(<<Callee.wrapped, Callee.instance, last.args,
                            last.kwargs>>)
       /\ ParentWraps("f")
            => Callee.wrapped = <<"method", "f", Callee.instance>>

C1_Witness ==
    /\ BoundCallOf("BoundGenericWrapper")
    /\ ParentWraps("f")
    /\ Callee.instance = Obj("i1")
    /\ Len(last.args) = 2
    /\ last.kwargs # {}
    /\ last.ok

(* C2: a generic proxy over the instance method f, fetched through the     *)
(* class and called with a non-empty A, invokes the callback with          *)
(* (f bound to A[1], A[1], the rest of A, K): the callback sees one        *)
(* argument fewer, in the same order.                                      *)
C2_ClassFetchShifts ==
    ( /\ BoundCallOf("BoundGenericWrapper")
      /\ Root(Callee.parent) = Obj("f")
      /\ Callee.instance = None
      /\ last.args # <<>> )
    => /\ InvokedOnceWith(<<Partial(bound, Callee.wrapped, last.args[1]),
                            last.args[1], Tail(last.args), last.kwargs>>)
       /\ Len(last.invoked[1].pos[3]) = Len(last.args) - 1
       /\ \A j \in 1..(Len(last.args) - 1) :
             last.invoked[1].pos[3][j] = last.args[j + 1]
       /\ ParentWraps("f")
            => Callee.wrapped = IF interp = "py2"
                                THEN <<"method", "f", None>>
                                ELSE Obj("f")

C2_Witness ==
    /\ BoundCallOf("BoundGenericWrapper")
    /\ ParentWraps("f")
    /\ Callee.instance = None
    /\ last.args = <<Obj("i1"), <<"val", "x">>>>
    /\ last.ok

(* C3: a generic proxy over a classmethod or staticmethod object, fetched  *)
(* through the class and called with A, invokes the callback with          *)
(* receiver None and A unchanged; the kind is that of what the parent      *)
(* proxy wrapped, not that of the bound callable.                          *)
C3_ClassLevelUnshifted ==
    ( /\ BoundCallOf("BoundGenericWrapper")
      /\ Root(Callee.parent) \in {Obj("cm"), Obj("sm")}
      /\ Callee.instance = None )
    => /\ InvokedOnceWith(<<Callee.wrapped, None, last.args, last.kwargs>>)
       /\ ParentWraps("cm") => Callee.wrapped = <<"method", "cm_func", Owner>>
       /\ ParentWraps("sm") => Callee.wrapped = Obj("sm_func")

C3_Witness ==
    /\ BoundCallOf("BoundGenericWrapper")
    /\ ParentWraps("cm")
    /\ Callee.instance = None
    /\ Len(last.args) = 2
    /\ ClassOf(bound, Callee.wrapped) \notin {"classmethod", "staticmethod"}
    /\ last.ok

(* The call in progress was made on a FunctionWrapper. *)
FunctionCallMade ==
    /\ last # NoCall
    /\ last.callee[1] = "px"
    /\ Callee.cls = "FunctionWrapper"

(* C4 as stated: a call of a plain-function proxy invokes the callback     *)
(* with the four positional values (target, None, A, K) and the            *)
(* configuration as keywords.                                              *)
C4_FourValues ==
    FunctionCallMade =>
        /\ last.ok
        /\ Len(last.invoked) = 1
        /\ Len(last.invoked[1].pos) = 4
        /\ last.invoked[1].pos[1] = Callee.wrapped
        /\ last.invoked[1].pos[2] = None
        /\ last.invoked[1].pos[3] = last.args
        /\ last.invoked[1].pos[4] = last.kwargs
        /\ last.invoked[1].params = Callee.params

(* C4 amended: a call of a plain-function proxy invokes the callback       *)
(* exactly once with the three positional values (target, A, K) and the    *)
(* configuration as keywords: there is no receiver slot, and A is not      *)
(* shifted.                                                                *)
C4_ThreeValues ==
    FunctionCallMade =>
        /\ InvokedOnceWith(<<Callee.wrapped, last.args, last.kwargs>>)
        /\ Len(last.invoked[1].pos) = 3

C4_Witness ==
    /\ FunctionCallMade
    /\ Len(last.args) = 2
    /\ Callee.params[2] # {}
    /\ last.ok

(* C10: a method-only proxy never consults the kind of what it wraps.      *)
(* Fetched through an instance r, the callback gets (bound callable, r,    *)
(* A, K); fetched through the class, the first element of a non-empty A    *)
(* is the receiver and the callback gets (callable bound to A[1], A[1],    *)
(* rest of A, K), for an instance, class or static method alike.           *)
C10_MethodAlwaysShifts ==
    BoundCallOf("BoundMethodWrapper") =>
        /\ Callee.instance # None
             => InvokedOnceWith(<<Callee.wrapped, Callee.instance, last.args,
                                  last.kwargs>>)
        /\ (Callee.instance = None /\ last.args # <<>>)
             => InvokedOnceWith(<<Partial(bound, Callee.wrapped,
                                          last.args[1]),
                                  last.args[1], Tail(last.args),
                                  last.kwargs>>)

C10_Witness ==
    /\ BoundCallOf("BoundMethodWrapper")
    /\ Root(Top) = Obj("sm")
    /\ Callee.instance = None
    /\ Len(last.args) = 2
    /\ last.ok

----------------------------------------------------------------------------
(* Properties of identity and metadata                                     *)

StackRefs == {<<"px", n>> : n \in 1..Len(proxies)}

(* No proxy of the stack up to x was given an adapter. *)
NoAdapterUpTo(x) == \A k \in 1..x[2] : built[k].adapter = None

(* C5: in a stack of proxies built without adapters over an entity F that  *)
(* carries no __wrapped__, the anchor of every proxy, and the value read   *)
(* from its __wrapped__, is F and never an intermediate proxy.             *)
C5_ChainCollapses ==
    \A x \in StackRefs :
        (NoAdapterUpTo(x) /\ ReadAttr(bound, Root(x), "__wrapped__") = Absent)
        => /\ ProxyAt(bound, x).target = Root(x)
           /\ ReadAttr(bound, x, "__wrapped__") = Root(x)

C5_Witness ==
    /\ Len(proxies) = MaxProxies
    /\ NoAdapterUpTo(Top)
    /\ ReadAttr(bound, Root(Top), "__wrapped__") = Absent
    /\ ProxyAt(bound, Top).wrapped # Root(Top)
    /\ writes >= 2

Others ==
    {Obj(o) : o \in AttrObjs \cup {"adapter"}} \cup NewVals \cup StackRefs

(* What x reads as __wrapped__, and how it compares and hashes, are those  *)
(* of the anchor chosen when x was constructed.                            *)
AnchorKept(x) ==
    LET a == built[x[2]].anchor0 IN
    /\ ReadAttr(bound, x, "__wrapped__") = a
    /\ ProxyHash(bound, x) = HashOf(bound, a)
    /\ \A o \in Others :
          /\ ProxyEq(bound, x, o) = ObjEq(bound, a, o)
          /\ ProxyNe(bound, x, o) = ~ObjEq(bound, a, o)

(* C6 as stated: after attribute writes through the proxy under any name,  *)
(* and any calls and bindings, the proxy still reads, compares and hashes  *)
(* as the anchor chosen at construction.                                   *)
C6_AnchorFixedAnyName == \A x \in StackRefs : AnchorKept(x)

(* C6 amended: the same, for attribute writes through the proxy under any  *)
(* name other than _self_target, which WrapperBase.__setattr__ stores on   *)
(* the proxy itself and so replaces the anchor.                            *)
C6_AnchorFixed == \A x \in StackRefs : ~built[x[2]].retargeted => AnchorKept(x)

C6_Witness ==
    \E x \in StackRefs :
        /\ ~built[x[2]].retargeted
        /\ built[x[2]].anchor0 = Root(x)
        /\ ReadAttr(bound, Root(x), "__wrapped__") \in NewVals
        /\ ReadAttr(bound, Root(x), "__name__") \in NewVals
        /\ writes >= 2
        /\ bound # <<>>
        /\ last # NoCall

(* C7: the documentation text and the owning module read from a proxy are  *)
(* those of its target, and so are the display name and the qualified name *)
(* as long as no attribute has been written since the proxy was built.     *)
C7_MetadataPreserved ==
    \A x \in StackRefs :
        LET w == ProxyAt(bound, x).wrapped IN
        /\ \A n \in {"__doc__", "__module__"} :
              ReadAttr(bound, x, n) = ReadAttr(bound, w, n)
        /\ writes = built[x[2]].writesAt
             => \A n \in {"__name__", "__qualname__"} :
                   ReadAttr(bound, x, n) = ReadAttr(bound, w, n)

C7_Witness ==
    /\ Len(proxies) = 1
    /\ writes = 0
    /\ \A n \in {"__name__", "__qualname__", "__doc__", "__module__"} :
          /\ ReadAttr(bound, Top, n) # Absent
          /\ ReadAttr(bound, Top, n) = <<"init", n, Root(Top)[2]>>

(* C8: reading __annotations__ from a proxy yields the current             *)
(* __annotations__ of the entity it stands for, so that a value written    *)
(* through the proxy is the value read back.                               *)
C8_AnnotationsLive ==
    \A x \in StackRefs :
        ReadAttr(bound, x, "__annotations__")
            = ReadAttr(bound, Root(x), "__annotations__")

(* C9: where the target had a display name (qualified name) when the proxy *)
(* was built, the proxy reads that value whatever is written afterwards to *)
(* the target, directly or through the proxy.                              *)
C9_NamesSnapshotted ==
    \A x \in StackRefs :
        /\ built[x[2]].name0 # Absent
             => ReadAttr(bound, x, "__name__") = built[x[2]].name0
        /\ built[x[2]].qualname0 # Absent
             => ReadAttr(bound, x, "__qualname__") = built[x[2]].qualname0

C9_Witness ==
    \E x \in StackRefs :
        /\ built[x[2]].name0 # Absent
        /\ ReadAttr(bound, Root(x), "__name__") \in NewVals
        /\ ReadAttr(bound, x, "__name__") = built[x[2]].name0
        /\ ReadAttr(bound, x, "__name__") \notin NewVals
        /\ built[x[2]].qualname0 # Absent
        /\ ReadAttr(bound, Root(x), "__qualname__") \in NewVals
        /\ ReadAttr(bound, x, "__qualname__") = built[x[2]].qualname0
        /\ writes >= 2

====
